---- MODULE Spec2Model ----
(***************************************************************************)
(* Streaming text-to-speech relay: the queued server (unnamed/part_000,    *)
(* lines 1-227) and the cached server (server.js).  Both accept            *)
(* 'synthesize-streaming' messages on WebSocket connections, open an       *)
(* upstream streamingSynthesize call and relay its audio to the client.    *)
(* The queued server serialises the requests of a connection; the cached   *)
(* server memoises completed results in audioCache.                        *)
(***************************************************************************)
EXTENDS Integers, Sequences, FiniteSets, TLC

(***************************************************************************)
(* Bounds of the model.                                                    *)
(***************************************************************************)
NumConns == 2       \* connections the server accepts during a run
MaxMessages == 3    \* inbound messages, summed over the connections
MaxData == 2        \* upstream 'data' events, summed over the calls

Conns == 1..NumConns

(***************************************************************************)
(* Program constants.                                                      *)
(***************************************************************************)
CACHE_MAX_SIZE == 100
MiB == 1024 * 1024

(***************************************************************************)
(* Buffers.  A buffer is kept run-length encoded: a sequence of runs       *)
(* [b |-> byte, n |-> count] with n > 0 and no two adjacent runs of the    *)
(* same byte, so that two buffers hold the same bytes exactly when their   *)
(* encodings are equal.                                                    *)
(***************************************************************************)
Run(b, n) == [b |-> b, n |-> n]

AppendRun(buf, r) ==
    IF r.n = 0 THEN buf
    ELSE IF buf # <<>> /\ buf[Len(buf)].b = r.b
         THEN [buf EXCEPT ![Len(buf)].n = @ + r.n]
         ELSE Append(buf, r)

\* a followed by b.  The operand of a recursive step is bound by a
\* quantifier, here and below, so that it is computed once.
RECURSIVE Concat2(_, _)
Concat2(a, b) ==
    IF b = <<>> THEN a
    ELSE CHOOSE r \in {Concat2(x, Tail(b)) : x \in {AppendRun(a, Head(b))}} : TRUE

\* Buffer.concat(list)
RECURSIVE BufferConcat(_)
BufferConcat(list) ==
    IF list = <<>> THEN <<>>
    ELSE CHOOSE r \in {Concat2(Head(list), rest) :
                            rest \in {BufferConcat(Tail(list))}} : TRUE

\* buf.length
RECURSIVE BufLen(_)
BufLen(buf) ==
    IF buf = <<>> THEN 0 ELSE Head(buf).n + BufLen(Tail(buf))

\* buf[i], 0-based
RECURSIVE ByteAt(_, _)
ByteAt(buf, i) ==
    IF i < Head(buf).n THEN Head(buf).b ELSE ByteAt(Tail(buf), i - Head(buf).n)

\* buf.subarray(k)
RECURSIVE Subarray(_, _)
Subarray(buf, k) ==
    IF k = 0 \/ buf = <<>> THEN buf
    ELSE IF k >= Head(buf).n THEN Subarray(Tail(buf), k - Head(buf).n)
         ELSE <<Run(Head(buf).b, Head(buf).n - k)>> \o Tail(buf)

\* the buffer of the bytes listed in bytes
RECURSIVE FromBytes(_)
FromBytes(bytes) ==
    IF bytes = <<>> THEN <<>>
    ELSE CHOOSE r \in {Concat2(<<Run(Head(bytes), 1)>>, rest) :
                            rest \in {FromBytes(Tail(bytes))}} : TRUE

\* Buffer.alloc(4) followed by writeInt32LE(v, 0), for 0 <= v < 2^31
WriteInt32LE(v) ==
    FromBytes(<<v % 256, (v \div 256) % 256,
                (v \div 65536) % 256, (v \div 16777216) % 256>>)

\* buf.readInt32LE(0) for a non-negative value
ReadInt32LE(buf) ==
    ByteAt(buf, 0) + 256 * ByteAt(buf, 1)
        + 65536 * ByteAt(buf, 2) + 16777216 * ByteAt(buf, 3)

\* Buffer.alloc(1) followed by writeUInt8(v)
WriteUInt8(v) == FromBytes(<<v % 256>>)

\* [4-byte sequence][1-byte flag][audio data]
CombinedBuffer(seq, flag, audio) ==
    BufferConcat(<<WriteInt32LE(seq), WriteUInt8(flag), audio>>)


(***************************************************************************)
(* State.                                                                  *)
(***************************************************************************)
VARIABLES
    variant,            \* "queued" (part_000) or "cached" (server.js)
    readyState,         \* per connection: "NONE", "OPEN" or "CLOSED"
    activeConnections,  \* the Set of registered connections
    sequenceNumber,     \* queued: per connection
    processingQueue,    \* queued: per connection
    isProcessing,       \* queued: per connection
    streams,            \* the upstream calls made so far, in creation order
    audioCache,         \* cached: the Map, in iteration order
    sent,               \* per connection and request: the messages handed
                        \* to ws.send for it, in order (request 0: none)
    submitted,          \* per connection: 'synthesize-streaming' messages received
    inbound,            \* counted inbound messages received, all connections
    emittedData,        \* counted upstream 'data' events, all calls
    clock,              \* count of entries ever created in audioCache
    lastEvicted         \* keys deleted by the latest 'end' handler

vars == <<variant, readyState, activeConnections, sequenceNumber,
          processingQueue, isProcessing, streams, audioCache, sent,
          submitted, inbound, emittedData, clock, lastEvicted>>

queueVars == <<sequenceNumber, processingQueue, isProcessing>>
cacheVars == <<audioCache, clock, lastEvicted>>

(***************************************************************************)
(* Inbound messages.  A message is either not JSON (JSON.parse throws), or *)
(* parses to an object whose fields may be absent (Undefined).             *)
(***************************************************************************)
Undefined == "undefined"

Parsed(type, text, languageCode) ==
    [json |-> TRUE, type |-> type, text |-> text, languageCode |-> languageCode,
     ssmlGender |-> Undefined, name |-> Undefined]

Synthesize(text, languageCode) == Parsed("synthesize-streaming", text, languageCode)

Malformed == [Parsed(Undefined, Undefined, Undefined) EXCEPT !.json = FALSE]

\* A message of another type, which both servers ignore
Ping == Parsed("ping", Undefined, Undefined)

\* The text of the i-th request of those that filled the starting cache;
\* Text(1) is the text of its oldest entry, FreshText is in no entry of it.
Text(i) == ToString(i)
FreshText == Text(CACHE_MAX_SIZE + 1)

SynthRequests ==
    { Synthesize(Text(1), Undefined),
      Synthesize(FreshText, Undefined),
      Synthesize(FreshText, "en-IN") }

\* The messages and the 'data' events that change the state are counted
\* against MaxMessages and MaxData; the ignored ones are not.
Counted(m) == m # Ping

\* The queued server reads no field of a request but hands them upstream.
Inbound ==
    {Malformed, Ping} \cup
    (IF variant = "queued" THEN {Synthesize(Text(1), Undefined)} ELSE SynthRequests)

\* const { languageCode = 'en-IN', ... } = data
Default(v, d) == IF v = Undefined THEN d ELSE v

\* `ws_${text}_${languageCode}_${ssmlGender}_${name}_LINEAR16`
cacheKey(data) ==
    "ws_" \o data.text \o "_" \o Default(data.languageCode, "en-IN")
        \o "_" \o Default(data.ssmlGender, "NEUTRAL")
        \o "_" \o Default(data.name, "en-IN-Journey-O") \o "_LINEAR16"

(***************************************************************************)
(* Upstream 'data' events: response.audioContent is absent (falsy) or a    *)
(* buffer.  The queued server relays the bytes and never measures them;    *)
(* the cached server compares the total length with 1 MiB.                 *)
(***************************************************************************)
NoContent == [has |-> FALSE, buf |-> <<>>]
Audio(buf) == [has |-> TRUE, buf |-> buf]

Responses ==
    {NoContent, Audio(<<Run(1, 1)>>)} \cup
    (IF variant = "queued"
     THEN {Audio(<<Run(2, 1)>>)}
     ELSE {Audio(<<Run(2, MiB - 2)>>), Audio(<<Run(3, MiB)>>)})

(***************************************************************************)
(* Outbound messages.                                                      *)
(***************************************************************************)
NoOne == [conn |-> 0, req |-> 0]

\* A message handed to ws.send.  On the payload of a cache hit, from names
\* the request that last stored the entry and first the request that
\* created it.
Message(type) ==
    [type |-> type, sequenceNumber |-> -1, isLastChunk |-> FALSE,
     cached |-> FALSE, data |-> <<>>, from |-> NoOne, first |-> NoOne]

Binary(data) == [Message("binary") EXCEPT !.data = data]

AudioChunk(seq, last) ==
    [Message("audio-chunk") EXCEPT !.sequenceNumber = seq, !.isLastChunk = last]

\* wss.clients.forEach(client => client.send(m)) for each m of ms
Send_ToAll(log, c, r, ms) == [d \in Conns |-> [log[d] EXCEPT ![r] = @ \o ms]]

\* log after ws.send(m) for each m of ms, sent on connection c for request r
Send(log, c, r, ms) == [log EXCEPT ![c][r] = @ \o ms]

\* textToSpeechClient.streamingSynthesize() with its handlers attached
NewStream(c, req, key) ==
    [conn |-> c, req |-> req, key |-> key,
     state |-> "open", awaiting |-> (variant = "queued"),
     audioChunks |-> <<>>, sequenceNumber |-> 0, emitted |-> <<>>]

\* The upstream calls of connection c that have started and neither ended
\* nor failed
Active(c) ==
    {s \in DOMAIN streams : streams[s].conn = c /\ streams[s].state = "open"}


(***************************************************************************)
(* audioCache.  The Map is kept as the sequence of its entries in          *)
(* iteration order.  An entry holds its key and blob and, for the          *)
(* properties, the number it got when it was created (at) and the requests *)
(* that created it and last stored it.  A run of n consecutive entries     *)
(* that the cache started with and that were never touched is kept as one  *)
(* element of span n: it stands for the entries at, at + 1, ...,           *)
(* at + n - 1, whose keys are InitialKeys[at], ... and whose blob is       *)
(* InitialBlob.                                                            *)
(***************************************************************************)
InitialKeys ==
    [i \in 1..CACHE_MAX_SIZE |-> cacheKey(Synthesize(Text(i), Undefined))]

InitialBlob == <<Run(7, 1)>>

Entry(key, blob, at, writer) ==
    [key |-> key, blob |-> blob, at |-> at, creator |-> writer,
     writer |-> writer, span |-> 1]

Block(i, n) == [Entry(InitialKeys[i], InitialBlob, i, NoOne) EXCEPT !.span = n]

\* element e stands for an entry with this key
Holds(e, key) ==
    \/ e.key = key
    \/ e.span > 1 /\ \E j \in (e.at + 1)..(e.at + e.span - 1) : InitialKeys[j] = key

\* the number of the entry with this key among those e stands for
IndexIn(e, key) ==
    IF e.key = key THEN e.at
    ELSE CHOOSE j \in (e.at + 1)..(e.at + e.span - 1) : InitialKeys[j] = key

\* the entries of e before, at and after number j
Before(e, j) == IF j > e.at THEN <<[e EXCEPT !.span = j - e.at]>> ELSE <<>>
Single(e, j) == IF j = e.at THEN [e EXCEPT !.span = 1] ELSE Block(j, 1)
After(e, j) ==
    IF j < e.at + e.span - 1 THEN <<Block(j + 1, e.at + e.span - 1 - j)>> ELSE <<>>

\* audioCache.size
RECURSIVE MapSize(_)
MapSize(m) == IF m = <<>> THEN 0 ELSE Head(m).span + MapSize(Tail(m))

\* audioCache.has(key)
MapHas(m, key) == \E i \in 1..Len(m) : Holds(m[i], key)

\* the place of the element of m that stands for the entry of key
Place(m, key) == CHOOSE i \in 1..Len(m) : Holds(m[i], key)

\* audioCache.get(key), for a key the map has
MapGet(m, key) == Single(m[Place(m, key)], IndexIn(m[Place(m, key)], key))

\* the key of the newest entry in the place of the oldest
LastKey(m) ==
    IF m[Len(m)].span > 1
    THEN InitialKeys[m[Len(m)].at + m[Len(m)].span - 1]
    ELSE m[Len(m)].key

\* audioCache.keys().next().value, for a map that is not empty
FirstKey(m) == m[1].key

\* audioCache.delete(key)
MapDelete(m, key) ==
    IF ~MapHas(m, key) THEN m
    ELSE LET i == Place(m, key)
             j == IndexIn(m[i], key)
         IN  SubSeq(m, 1, i - 1) \o Before(m[i], j) \o After(m[i], j)
                \o SubSeq(m, i + 1, Len(m))

\* audioCache.set(key, blob): a key already held keeps its place in the
\* iteration order and gets the new value; a new key goes last.
MapSet(m, key, blob, at, writer) ==
    IF MapHas(m, key)
    THEN LET i == Place(m, key)
             j == IndexIn(m[i], key)
         IN  SubSeq(m, 1, i - 1) \o Before(m[i], j)
                \o <<[Single(m[i], j) EXCEPT !.blob = blob, !.writer = writer]>>
                \o After(m[i], j) \o SubSeq(m, i + 1, Len(m))
    ELSE Append(m, Entry(key, blob, at, writer))

\* audioChunks.unshift(response.audioContent)
Collected_AtFront(audioChunks, buf) == <<buf>> \o audioChunks

\* audioChunks.push(response.audioContent)
Collected(audioChunks, buf) == Append(audioChunks, buf)

\* The guard with completeAudio.length <= 1024 * 1024
Cacheable_Inclusive(audioChunks) ==
    Len(audioChunks) > 0 /\ BufLen(BufferConcat(audioChunks)) <= MiB

\* The guard of the insertion: audioChunks.length > 0 and
\* completeAudio.length < 1024 * 1024
Cacheable(audioChunks) ==
    Len(audioChunks) > 0 /\ BufLen(BufferConcat(audioChunks)) < MiB

\* The eviction with audioCache.size > CACHE_MAX_SIZE
Evicted_WhenOver(m) == IF MapSize(m) > CACHE_MAX_SIZE THEN <<FirstKey(m)>> ELSE <<>>

\* The keys the insertion deletes from map m:
\* if (audioCache.size >= CACHE_MAX_SIZE) audioCache.delete(firstKey)
Evicted(m) == IF MapSize(m) >= CACHE_MAX_SIZE THEN <<FirstKey(m)>> ELSE <<>>

\* The map after the eviction and audioCache.set(cacheKey, completeAudio)
CacheInsert(m, key, blob, at, writer) ==
    LET kept == IF Evicted(m) = <<>> THEN m ELSE MapDelete(m, Evicted(m)[1])
    IN  MapSet(kept, key, blob, at, writer)

(***************************************************************************)
(* Initial states.  The queued server starts with no connection.  The      *)
(* cached server starts with no connection and a cache that is empty or    *)
(* was filled by CACHE_MAX_SIZE earlier requests, oldest first.            *)
(***************************************************************************)
Prefilled(n) == IF n = 0 THEN <<>> ELSE <<Block(1, n)>>

InitFill == {0, CACHE_MAX_SIZE}

InitCommon ==
    /\ readyState = [c \in Conns |-> "NONE"]
    /\ activeConnections = {}
    /\ sequenceNumber = [c \in Conns |-> 0]
    /\ processingQueue = [c \in Conns |-> <<>>]
    /\ isProcessing = [c \in Conns |-> FALSE]
    /\ streams = <<>>
    /\ sent = [c \in Conns |-> [r \in 0..MaxMessages |-> <<>>]]
    /\ submitted = [c \in Conns |-> 0]
    /\ inbound = 0
    /\ emittedData = 0
    /\ lastEvicted = <<>>

InitQueued ==
    /\ variant = "queued"
    /\ audioCache = <<>>
    /\ clock = 0
    /\ InitCommon

InitCached ==
    /\ variant = "cached"
    /\ \E n \in InitFill : audioCache = Prefilled(n) /\ clock = n
    /\ InitCommon

Init == InitQueued \/ InitCached


(***************************************************************************)
(* The queued server, part_000 lines 21-209.                               *)
(***************************************************************************)

\* processingQueue.pop() in the place of processingQueue.shift()
QueuePop(q) == [item |-> q[Len(q)], rest |-> SubSeq(q, 1, Len(q) - 1)]

\* const nextItem = processingQueue.shift()
QueueShift(q) == [item |-> Head(q), rest |-> Tail(q)]

\* processNextInQueue without `isProcessing = true`
processNextInQueue_FlagNotSet(c, q, proc, strs, log) ==
    IF Len(q) = 0 \/ proc
    THEN /\ processingQueue' = [processingQueue EXCEPT ![c] = q]
         /\ isProcessing' = [isProcessing EXCEPT ![c] = proc]
         /\ streams' = strs
         /\ sent' = log
    ELSE /\ isProcessing' = [isProcessing EXCEPT ![c] = proc]
         /\ processingQueue' = [processingQueue EXCEPT ![c] = Tail(q)]
         /\ streams' = Append(strs, NewStream(c, Head(q).req, ""))
         /\ sent' = Send(log, c, Head(q).req, <<Message("audio-info")>>)

\* processNextInQueue, called when the queue is q, the flag is proc, the
\* calls are strs and the messages sent are log; synthesizeText runs up to
\* the creation of its promise inside the same call.  The queued server
\* computes no cache key.
processNextInQueue(c, q, proc, strs, log) ==
    IF Len(q) = 0 \/ proc
    THEN /\ processingQueue' = [processingQueue EXCEPT ![c] = q]
         /\ isProcessing' = [isProcessing EXCEPT ![c] = proc]
         /\ streams' = strs
         /\ sent' = log
    ELSE LET nextItem == QueueShift(q).item
         IN  /\ isProcessing' = [isProcessing EXCEPT ![c] = TRUE]
             /\ processingQueue' = [processingQueue EXCEPT ![c] = QueueShift(q).rest]
             /\ streams' = Append(strs, NewStream(c, nextItem.req, ""))
             /\ sent' = Send(log, c, nextItem.req, <<Message("audio-info")>>)

\* wss.on('connection') with `let isProcessing = true`
Queued_Connection_Busy(c) ==
    /\ variant = "queued"
    /\ readyState[c] = "NONE"
    /\ \A d \in Conns : d < c => readyState[d] # "NONE"
    /\ readyState' = [readyState EXCEPT ![c] = "OPEN"]
    /\ sequenceNumber' = [sequenceNumber EXCEPT ![c] = 0]
    /\ processingQueue' = [processingQueue EXCEPT ![c] = <<>>]
    /\ isProcessing' = [isProcessing EXCEPT ![c] = TRUE]
    /\ activeConnections' = activeConnections \cup {c}
    /\ UNCHANGED <<variant, streams, sent, submitted, inbound, emittedData, cacheVars>>

\* wss.on('connection'); connections are numbered in the order they arrive
Queued_Connection(c) ==
    /\ variant = "queued"
    /\ readyState[c] = "NONE"
    /\ \A d \in Conns : d < c => readyState[d] # "NONE"
    /\ readyState' = [readyState EXCEPT ![c] = "OPEN"]
    /\ sequenceNumber' = [sequenceNumber EXCEPT ![c] = 0]
    /\ processingQueue' = [processingQueue EXCEPT ![c] = <<>>]
    /\ isProcessing' = [isProcessing EXCEPT ![c] = FALSE]
    /\ activeConnections' = activeConnections \cup {c}
    /\ UNCHANGED <<variant, streams, sent, submitted, inbound, emittedData, cacheVars>>

\* ws.on('message') with one isProcessing flag for the whole server
Queued_Message_SharedFlag(c, m) ==
    /\ variant = "queued"
    /\ readyState[c] = "OPEN"
    /\ Counted(m) => inbound < MaxMessages
    /\ inbound' = IF Counted(m) THEN inbound + 1 ELSE inbound
    /\ IF ~m.json
       THEN /\ sent' = Send(sent, c, 0, <<Message("error")>>)
            /\ UNCHANGED <<processingQueue, isProcessing, streams, submitted>>
       ELSE IF m.type = "synthesize-streaming"
       THEN LET q == Append(processingQueue[c],
                            [req |-> submitted[c] + 1, data |-> m])
            IN  /\ submitted' = [submitted EXCEPT ![c] = @ + 1]
                /\ IF \A d \in Conns : ~isProcessing[d]
                   THEN processNextInQueue(c, q, isProcessing[c], streams, sent)
                   ELSE /\ processingQueue' = [processingQueue EXCEPT ![c] = q]
                        /\ UNCHANGED <<isProcessing, streams, sent>>
       ELSE UNCHANGED <<processingQueue, isProcessing, streams, sent, submitted>>
    /\ UNCHANGED <<variant, readyState, activeConnections, sequenceNumber,
                   emittedData, cacheVars>>

\* ws.on('message')
Queued_Message(c, m) ==
    /\ variant = "queued"
    /\ readyState[c] = "OPEN"
    /\ Counted(m) => inbound < MaxMessages
    /\ inbound' = IF Counted(m) THEN inbound + 1 ELSE inbound
    /\ IF ~m.json
       THEN /\ sent' = Send(sent, c, 0, <<Message("error")>>)
            /\ UNCHANGED <<processingQueue, isProcessing, streams, submitted>>
       ELSE IF m.type = "synthesize-streaming"
       THEN LET q == Append(processingQueue[c],
                            [req |-> submitted[c] + 1, data |-> m])
            IN  /\ submitted' = [submitted EXCEPT ![c] = @ + 1]
                /\ IF ~isProcessing[c]
                   THEN processNextInQueue(c, q, isProcessing[c], streams, sent)
                   ELSE /\ processingQueue' = [processingQueue EXCEPT ![c] = q]
                        /\ UNCHANGED <<isProcessing, streams, sent>>
       ELSE UNCHANGED <<processingQueue, isProcessing, streams, sent, submitted>>
    /\ UNCHANGED <<variant, readyState, activeConnections, sequenceNumber,
                   emittedData, cacheVars>>

\* stream.on('data')
Queued_StreamData(s, response) ==
    /\ variant = "queued"
    /\ s \in DOMAIN streams
    /\ streams[s].state = "open"
    /\ response.has => emittedData < MaxData
    /\ emittedData' = IF response.has THEN emittedData + 1 ELSE emittedData
    /\ LET c == streams[s].conn
       IN  IF response.has
           THEN /\ sent' = Send(sent, c, streams[s].req,
                              <<Binary(CombinedBuffer(sequenceNumber[c], 0, response.buf))>>)
                /\ sequenceNumber' = [sequenceNumber EXCEPT ![c] = @ + 1]
                /\ streams' = [streams EXCEPT ![s].emitted = Append(@, response.buf)]
           ELSE UNCHANGED <<sent, sequenceNumber, streams>>
    /\ UNCHANGED <<variant, readyState, activeConnections, processingQueue,
                   isProcessing, submitted, inbound, cacheVars>>

\* stream.on('end') with sequenceNumber++ after the final frame
Queued_StreamEnd_Advances(s) ==
    /\ variant = "queued"
    /\ s \in DOMAIN streams
    /\ streams[s].state = "open"
    /\ sent' = Send(sent, streams[s].conn, streams[s].req,
                    <<Binary(CombinedBuffer(sequenceNumber[streams[s].conn], 1, <<>>)),
                      Message("audio-complete")>>)
    /\ streams' = [streams EXCEPT ![s].state = "end"]
    /\ sequenceNumber' = [sequenceNumber EXCEPT ![streams[s].conn] = @ + 1]
    /\ UNCHANGED <<variant, readyState, activeConnections, processingQueue,
                   isProcessing, submitted, inbound, emittedData, cacheVars>>

\* stream.on('end'): the final frame, 'audio-complete', resolve()
Queued_StreamEnd(s) ==
    /\ variant = "queued"
    /\ s \in DOMAIN streams
    /\ streams[s].state = "open"
    /\ sent' = Send(sent, streams[s].conn, streams[s].req,
                    <<Binary(CombinedBuffer(sequenceNumber[streams[s].conn], 1, <<>>)),
                      Message("audio-complete")>>)
    /\ streams' = [streams EXCEPT ![s].state = "end"]
    /\ UNCHANGED <<variant, readyState, activeConnections, queueVars,
                   submitted, inbound, emittedData, cacheVars>>

\* stream.on('error') that also gives up the requests still waiting
Queued_StreamError_Drain(s) ==
    /\ variant = "queued"
    /\ s \in DOMAIN streams
    /\ streams[s].state = "open"
    /\ sent' = Send(sent, streams[s].conn, streams[s].req, <<Message("error")>>)
    /\ streams' = [streams EXCEPT ![s].state = "error"]
    /\ processingQueue' = [processingQueue EXCEPT ![streams[s].conn] = <<>>]
    /\ UNCHANGED <<variant, readyState, activeConnections, sequenceNumber,
                   isProcessing, submitted, inbound, emittedData, cacheVars>>

\* stream.on('error'): the 'error' message, reject(error)
Queued_StreamError(s) ==
    /\ variant = "queued"
    /\ s \in DOMAIN streams
    /\ streams[s].state = "open"
    /\ sent' = Send(sent, streams[s].conn, streams[s].req, <<Message("error")>>)
    /\ streams' = [streams EXCEPT ![s].state = "error"]
    /\ UNCHANGED <<variant, readyState, activeConnections, queueVars,
                   submitted, inbound, emittedData, cacheVars>>

\* processNextInQueue after its await with a finally block that clears the
\* flag and does not call processNextInQueue again
Queued_Resume_NoRestart(s) ==
    /\ variant = "queued"
    /\ s \in DOMAIN streams
    /\ streams[s].state # "open"
    /\ streams[s].awaiting
    /\ isProcessing' = [isProcessing EXCEPT ![streams[s].conn] = FALSE]
    /\ streams' = [streams EXCEPT ![s].awaiting = FALSE]
    /\ sent' = IF streams[s].state = "error"
               THEN Send(sent, streams[s].conn, streams[s].req, <<Message("error")>>)
               ELSE sent
    /\ UNCHANGED <<variant, readyState, activeConnections, sequenceNumber,
                   processingQueue, submitted, inbound, emittedData, cacheVars>>

\* processNextInQueue after `await synthesizeText(nextItem)`: the catch
\* block when the promise was rejected, then the finally block.
Queued_Resume(s) ==
    /\ variant = "queued"
    /\ s \in DOMAIN streams
    /\ streams[s].state # "open"
    /\ streams[s].awaiting
    /\ LET c == streams[s].conn
           log == IF streams[s].state = "error"
                  THEN Send(sent, c, streams[s].req, <<Message("error")>>)
                  ELSE sent
           strs == [streams EXCEPT ![s].awaiting = FALSE]
       IN  IF Len(processingQueue[c]) > 0
           THEN processNextInQueue(c, processingQueue[c], FALSE, strs, log)
           ELSE /\ isProcessing' = [isProcessing EXCEPT ![c] = FALSE]
                /\ streams' = strs
                /\ sent' = log
                /\ UNCHANGED processingQueue
    /\ UNCHANGED <<variant, readyState, activeConnections, sequenceNumber,
                   submitted, inbound, emittedData, cacheVars>>

\* ws.on('close') without `processingQueue = []`
Queued_Close_KeepsQueue(c) ==
    /\ variant = "queued"
    /\ readyState[c] = "OPEN"
    /\ readyState' = [readyState EXCEPT ![c] = "CLOSED"]
    /\ activeConnections' = activeConnections \ {c}
    /\ UNCHANGED <<variant, queueVars, streams, sent,
                   submitted, inbound, emittedData, cacheVars>>

\* ws.on('close')
Queued_Close(c) ==
    /\ variant = "queued"
    /\ readyState[c] = "OPEN"
    /\ readyState' = [readyState EXCEPT ![c] = "CLOSED"]
    /\ activeConnections' = activeConnections \ {c}
    /\ processingQueue' = [processingQueue EXCEPT ![c] = <<>>]
    /\ UNCHANGED <<variant, sequenceNumber, isProcessing, streams, sent,
                   submitted, inbound, emittedData, cacheVars>>

NextQueued ==
    \/ \E c \in Conns : Queued_Connection(c)
    \/ \E c \in Conns, m \in Inbound : Queued_Message(c, m)
    \/ \E s \in 1..MaxMessages, r \in Responses : Queued_StreamData(s, r)
    \/ \E s \in 1..MaxMessages : Queued_StreamEnd(s)
    \/ \E s \in 1..MaxMessages : Queued_StreamError(s)
    \/ \E s \in 1..MaxMessages : Queued_Resume(s)
    \/ \E c \in Conns : Queued_Close(c)

SpecQueued == InitQueued /\ [][NextQueued]_vars

\* A step the server takes without a new input of a client when the
\* provider answers the calls of the connections in cs: the 'end' or 'error'
\* event of such a call, or the continuation of processNextInQueue after
\* its await, a microtask that runs once the promise is settled.
Answered(cs) ==
    \E s \in 1..MaxMessages :
        \/ Queued_Resume(s)
        \/ /\ Queued_StreamEnd(s) \/ Queued_StreamError(s)
           /\ streams[s].conn \in cs

\* The queued server with a provider that answers every call
SpecQueuedLive == SpecQueued /\ WF_vars(Answered(Conns))

\* The queued server with a provider that may stall the calls of the first
\* connection for ever and answers those of the others
SpecQueuedStalled == SpecQueued /\ WF_vars(Answered(Conns \ {1}))

(***************************************************************************)
(* The cached server, server.js lines 25-184.                              *)
(***************************************************************************)

\* wss.on('connection'); connections are numbered in the order they arrive
Cached_Connection(c) ==
    /\ variant = "cached"
    /\ readyState[c] = "NONE"
    /\ \A d \in Conns : d < c => readyState[d] # "NONE"
    /\ readyState' = [readyState EXCEPT ![c] = "OPEN"]
    /\ activeConnections' = activeConnections \cup {c}
    /\ UNCHANGED <<variant, queueVars, streams, sent, submitted, inbound,
                   emittedData, cacheVars>>

\* ws.on('message') whose cache-hit path announces the blob as live audio
Cached_Message_HitUnannounced(c, m) ==
    /\ variant = "cached"
    /\ readyState[c] = "OPEN"
    /\ Counted(m) => inbound < MaxMessages
    /\ inbound' = IF Counted(m) THEN inbound + 1 ELSE inbound
    /\ IF ~m.json
       THEN /\ sent' = Send(sent, c, 0, <<Message("error")>>)
            /\ UNCHANGED <<streams, submitted>>
       ELSE IF m.type = "synthesize-streaming"
       THEN LET req == submitted[c] + 1
            IN  /\ submitted' = [submitted EXCEPT ![c] = req]
                /\ IF MapHas(audioCache, cacheKey(m))
                   THEN LET cachedAudio == MapGet(audioCache, cacheKey(m))
                        IN  /\ sent' = Send(sent, c, req,
                                 <<Message("audio-info"),
                                   AudioChunk(0, TRUE),
                                   [Binary(cachedAudio.blob) EXCEPT
                                       !.cached = TRUE,
                                       !.from = cachedAudio.writer,
                                       !.first = cachedAudio.creator],
                                   Message("audio-complete")>>)
                            /\ UNCHANGED streams
                   ELSE /\ sent' = Send(sent, c, req, <<Message("audio-info")>>)
                        /\ streams' = Append(streams, NewStream(c, req, cacheKey(m)))
       ELSE UNCHANGED <<streams, sent, submitted>>
    /\ UNCHANGED <<variant, readyState, activeConnections, queueVars,
                   emittedData, cacheVars>>

\* ws.on('message')
Cached_Message(c, m) ==
    /\ variant = "cached"
    /\ readyState[c] = "OPEN"
    /\ Counted(m) => inbound < MaxMessages
    /\ inbound' = IF Counted(m) THEN inbound + 1 ELSE inbound
    /\ IF ~m.json
       THEN /\ sent' = Send(sent, c, 0, <<Message("error")>>)
            /\ UNCHANGED <<streams, submitted>>
       ELSE IF m.type = "synthesize-streaming"
       THEN LET req == submitted[c] + 1
            IN  /\ submitted' = [submitted EXCEPT ![c] = req]
                /\ IF MapHas(audioCache, cacheKey(m))
                   THEN LET cachedAudio == MapGet(audioCache, cacheKey(m))
                        IN  /\ sent' = Send(sent, c, req,
                                 <<[Message("audio-info") EXCEPT !.cached = TRUE],
                                   AudioChunk(0, TRUE),
                                   [Binary(cachedAudio.blob) EXCEPT
                                       !.cached = TRUE,
                                       !.from = cachedAudio.writer,
                                       !.first = cachedAudio.creator],
                                   Message("audio-complete")>>)
                            /\ UNCHANGED streams
                   ELSE /\ sent' = Send(sent, c, req, <<Message("audio-info")>>)
                        /\ streams' = Append(streams, NewStream(c, req, cacheKey(m)))
       ELSE UNCHANGED <<streams, sent, submitted>>
    /\ UNCHANGED <<variant, readyState, activeConnections, queueVars,
                   emittedData, cacheVars>>

\* stream.on('data') that stores the audio collected so far in the cache
Cached_StreamData_Stores(s, response) ==
    /\ variant = "cached"
    /\ s \in DOMAIN streams
    /\ streams[s].state = "open"
    /\ response.has => emittedData < MaxData
    /\ emittedData' = IF response.has THEN emittedData + 1 ELSE emittedData
    /\ IF response.has
       THEN /\ sent' = Send(sent, streams[s].conn, streams[s].req,
                         <<AudioChunk(streams[s].sequenceNumber, FALSE),
                           Binary(response.buf)>>)
            /\ streams' = [streams EXCEPT
                             ![s].audioChunks = Collected(@, response.buf),
                             ![s].sequenceNumber = @ + 1,
                             ![s].emitted = Append(@, response.buf)]
            /\ audioCache' = CacheInsert(audioCache, streams[s].key,
                                BufferConcat(Collected(streams[s].audioChunks, response.buf)),
                                clock + 1,
                                [conn |-> streams[s].conn, req |-> streams[s].req])
            /\ lastEvicted' = Evicted(audioCache)
            /\ clock' = clock + 1
       ELSE UNCHANGED <<sent, streams, cacheVars>>
    /\ UNCHANGED <<variant, readyState, activeConnections, queueVars,
                   submitted, inbound>>

\* stream.on('data')
Cached_StreamData(s, response) ==
    /\ variant = "cached"
    /\ s \in DOMAIN streams
    /\ streams[s].state = "open"
    /\ response.has => emittedData < MaxData
    /\ emittedData' = IF response.has THEN emittedData + 1 ELSE emittedData
    /\ IF response.has
       THEN /\ sent' = Send(sent, streams[s].conn, streams[s].req,
                         <<AudioChunk(streams[s].sequenceNumber, FALSE),
                           Binary(response.buf)>>)
            /\ streams' = [streams EXCEPT
                             ![s].audioChunks = Collected(@, response.buf),
                             ![s].sequenceNumber = @ + 1,
                             ![s].emitted = Append(@, response.buf)]
       ELSE UNCHANGED <<sent, streams>>
    /\ UNCHANGED <<variant, readyState, activeConnections, queueVars,
                   submitted, inbound, cacheVars>>

\* stream.on('end') whose closing envelope is not marked last
Cached_StreamEnd_NotLast(s) ==
    /\ variant = "cached"
    /\ s \in DOMAIN streams
    /\ streams[s].state = "open"
    /\ sent' = Send(sent, streams[s].conn, streams[s].req,
                    <<AudioChunk(streams[s].sequenceNumber, FALSE),
                      Message("audio-complete")>>)
    /\ streams' = [streams EXCEPT ![s].state = "end"]
    /\ IF Cacheable(streams[s].audioChunks)
       THEN /\ audioCache' = CacheInsert(audioCache, streams[s].key,
                                BufferConcat(streams[s].audioChunks), clock + 1,
                                [conn |-> streams[s].conn, req |-> streams[s].req])
            /\ lastEvicted' = Evicted(audioCache)
            /\ clock' = clock + 1
       ELSE /\ lastEvicted' = <<>>
            /\ UNCHANGED <<audioCache, clock>>
    /\ UNCHANGED <<variant, readyState, activeConnections, queueVars,
                   submitted, inbound, emittedData>>

\* stream.on('end')
Cached_StreamEnd(s) ==
    /\ variant = "cached"
    /\ s \in DOMAIN streams
    /\ streams[s].state = "open"
    /\ sent' = Send(sent, streams[s].conn, streams[s].req,
                    <<AudioChunk(streams[s].sequenceNumber, TRUE),
                      Message("audio-complete")>>)
    /\ streams' = [streams EXCEPT ![s].state = "end"]
    /\ IF Cacheable(streams[s].audioChunks)
       THEN /\ audioCache' = CacheInsert(audioCache, streams[s].key,
                                BufferConcat(streams[s].audioChunks), clock + 1,
                                [conn |-> streams[s].conn, req |-> streams[s].req])
            /\ lastEvicted' = Evicted(audioCache)
            /\ clock' = clock + 1
       ELSE /\ lastEvicted' = <<>>
            /\ UNCHANGED <<audioCache, clock>>
    /\ UNCHANGED <<variant, readyState, activeConnections, queueVars,
                   submitted, inbound, emittedData>>

\* stream.on('error') that closes the audio as stream.on('end') does
Cached_StreamError_Completes(s) ==
    /\ variant = "cached"
    /\ s \in DOMAIN streams
    /\ streams[s].state = "open"
    /\ sent' = Send(sent, streams[s].conn, streams[s].req,
                    <<Message("error"),
                      AudioChunk(streams[s].sequenceNumber, TRUE),
                      Message("audio-complete")>>)
    /\ streams' = [streams EXCEPT ![s].state = "error"]
    /\ UNCHANGED <<variant, readyState, activeConnections, queueVars,
                   submitted, inbound, emittedData, cacheVars>>

\* stream.on('error')
Cached_StreamError(s) ==
    /\ variant = "cached"
    /\ s \in DOMAIN streams
    /\ streams[s].state = "open"
    /\ sent' = Send(sent, streams[s].conn, streams[s].req, <<Message("error")>>)
    /\ streams' = [streams EXCEPT ![s].state = "error"]
    /\ UNCHANGED <<variant, readyState, activeConnections, queueVars,
                   submitted, inbound, emittedData, cacheVars>>

\* ws.on('close')
Cached_Close(c) ==
    /\ variant = "cached"
    /\ readyState[c] = "OPEN"
    /\ readyState' = [readyState EXCEPT ![c] = "CLOSED"]
    /\ activeConnections' = activeConnections \ {c}
    /\ UNCHANGED <<variant, queueVars, streams, sent, submitted, inbound,
                   emittedData, cacheVars>>

NextCached ==
    \/ \E c \in Conns : Cached_Connection(c)
    \/ \E c \in Conns, m \in Inbound : Cached_Message(c, m)
    \/ \E s \in 1..MaxMessages, r \in Responses : Cached_StreamData(s, r)
    \/ \E s \in 1..MaxMessages : Cached_StreamEnd(s)
    \/ \E s \in 1..MaxMessages : Cached_StreamError(s)
    \/ \E c \in Conns : Cached_Close(c)

SpecCached == InitCached /\ [][NextCached]_vars

(***************************************************************************)
(* Both servers: the run is of one of them.                                *)
(***************************************************************************)
Next == NextQueued \/ NextCached

Spec == Init /\ [][Next]_vars


(***************************************************************************)
(* Properties.                                                             *)
(***************************************************************************)
Requests == 1..MaxMessages

HasType(lane, t) == \E i \in 1..Len(lane) : lane[i].type = t

CountType(lane, t) == Cardinality({i \in 1..Len(lane) : lane[i].type = t})

\* the lane holds a terminal notification: 'audio-complete' or 'error'
HasTerminal(lane) == HasType(lane, "audio-complete") \/ HasType(lane, "error")

\* the step is the 'error' event of call s
ErrorEvent(s) ==
    /\ s \in DOMAIN streams
    /\ streams[s].state = "open"
    /\ streams'[s].state = "error"

\* the step is the 'end' event of call s
EndEvent(s) ==
    /\ s \in DOMAIN streams
    /\ streams[s].state = "open"
    /\ streams'[s].state = "end"

\* the step resumes processNextInQueue after the await on call s
ResumeStep(s) ==
    /\ s \in DOMAIN streams
    /\ streams[s].awaiting
    /\ ~streams'[s].awaiting

\* C1: in the queued server at most one upstream call of a connection is
\* active (started, neither ended nor failed) at any time.
C1_AtMostOneActiveCall ==
    variant = "queued" => \A c \in Conns : Cardinality(Active(c)) <= 1

\* C1 witness: a call is active while two later requests of the same
\* connection wait in its queue.
C1_Witness ==
    \E c \in Conns :
        /\ variant = "queued"
        /\ Cardinality(Active(c)) = 1
        /\ Len(processingQueue[c]) = 2

\* C2, state part: the calls of a connection are started in submission
\* order, and a request has a message only when every earlier request of
\* the connection has its terminal notification.
C2_Ordered ==
    /\ \A s1, s2 \in DOMAIN streams :
          s1 < s2 /\ streams[s1].conn = streams[s2].conn
              => streams[s1].req < streams[s2].req
    /\ \A c \in Conns : \A i, j \in Requests :
          i < j /\ sent[c][j] # <<>> => HasTerminal(sent[c][i])

\* C2, step part: the first message of a request is sent in a step that
\* starts with the terminal notification of every earlier request already
\* sent, and no message of an earlier request is sent in a later step.
C2_OrderedStep ==
    \A c \in Conns : \A i, j \in Requests :
        i < j =>
            /\ sent[c][j] # <<>> => sent'[c][i] = sent[c][i]
            /\ sent[c][j] = <<>> /\ sent'[c][j] # <<>> => HasTerminal(sent[c][i])

\* C2: in the queued server the requests of a connection are started in
\* submission order and the terminal notification of a request precedes
\* every message of a later request.
C2_SubmissionOrder == [](variant = "queued" => C2_Ordered) /\ [][C2_OrderedStep]_vars

\* C2 witness: an open connection whose three requests all have their
\* terminal notification, a success among them and a failure.
C2_Witness ==
    \E c \in Conns :
        /\ variant = "queued"
        /\ readyState[c] = "OPEN"
        /\ submitted[c] = 3
        /\ \A r \in 1..3 : HasTerminal(sent[c][r])
        /\ \E r \in 1..3 : HasType(sent[c][r], "error")
        /\ \E r \in 1..3 : HasType(sent[c][r], "audio-complete")

\* C3: in the queued server the 'error' event of the call in flight leaves
\* every queue as it is, and the step that resumes after it clears
\* isProcessing when the queue is empty and otherwise starts the head of
\* the queue, which it removes, all later requests staying queued.
C3_FailureKeepsQueue ==
    [][\A s \in DOMAIN streams :
          /\ ErrorEvent(s) => processingQueue' = processingQueue
          /\ ResumeStep(s) /\ streams[s].state = "error" =>
                LET c == streams[s].conn
                    q == processingQueue[c]
                IN  IF q = <<>>
                    THEN /\ ~isProcessing'[c]
                         /\ processingQueue' = processingQueue
                         /\ Len(streams') = Len(streams)
                    ELSE /\ isProcessing'[c]
                         /\ processingQueue' = [processingQueue EXCEPT ![c] = Tail(q)]
                         /\ Len(streams') = Len(streams) + 1
                         /\ streams'[Len(streams')].conn = c
                         /\ streams'[Len(streams')].req = Head(q).req
                         /\ streams'[Len(streams')].state = "open"
      ]_vars

\* C3 witness: a request failed, the next request of the connection was
\* started after it and completed.
C3_Witness ==
    \E s1, s2 \in DOMAIN streams :
        /\ variant = "queued"
        /\ streams[s1].conn = streams[s2].conn
        /\ streams[s2].req = streams[s1].req + 1
        /\ streams[s1].state = "error"
        /\ streams[s2].state = "end"
        /\ readyState[streams[s1].conn] = "OPEN"
        /\ HasType(sent[streams[s2].conn][streams[s2].req], "audio-complete")


\* the lane of the request of call s
LaneOf(s) == sent[streams[s].conn][streams[s].req]

\* the binary messages of a lane, in order
Frames(lane) == SelectSeq(lane, LAMBDA m : m.type = "binary")

\* the audio bytes a binary message carries: behind the 5-byte header in
\* the queued server, the whole message in the cached server
AudioOf(m) == IF variant = "queued" THEN Subarray(m.data, 5) ELSE m.data

\* the audio payloads of a lane, in order
Payloads(lane) == [i \in 1..Len(Frames(lane)) |-> AudioOf(Frames(lane)[i])]

\* the lane holds a chunk marked last: flag byte 1 in the queued server,
\* isLastChunk in the cached server
MarkedLast(lane) ==
    \E i \in 1..Len(lane) :
        IF variant = "queued"
        THEN lane[i].type = "binary" /\ ByteAt(lane[i].data, 4) = 1
        ELSE lane[i].type = "audio-chunk" /\ lane[i].isLastChunk

\* C4 as stated: for a request whose upstream call failed, the client gets
\* exactly one 'error' message and no second call is made for the request.
C4_ReportedOnce ==
    \A s \in DOMAIN streams :
        streams[s].state = "error" /\ readyState[streams[s].conn] = "OPEN" =>
            /\ CountType(LaneOf(s), "error") = 1
            /\ \A t \in DOMAIN streams :
                  t # s => ~(streams[t].conn = streams[s].conn
                             /\ streams[t].req = streams[s].req)

\* C5: when a call emitted k chunks and then failed, the client of an open
\* connection got exactly those k chunks in order, then 'error', and
\* neither 'audio-complete' nor a chunk marked last.
C5_ChunksThenError ==
    \A s \in DOMAIN streams :
        streams[s].state = "error" /\ readyState[streams[s].conn] = "OPEN" =>
            /\ Payloads(LaneOf(s)) = streams[s].emitted
            /\ HasType(LaneOf(s), "error")
            /\ \A i, j \in 1..Len(LaneOf(s)) :
                  i < j /\ LaneOf(s)[i].type = "error" => LaneOf(s)[j].type = "error"
            /\ ~HasType(LaneOf(s), "audio-complete")
            /\ ~MarkedLast(LaneOf(s))

\* C5 witness: a call failed after two chunks, its connection is open.
C5_Witness ==
    \E s \in DOMAIN streams :
        /\ streams[s].state = "error"
        /\ Len(streams[s].emitted) = 2
        /\ streams[s].emitted[1] # streams[s].emitted[2]
        /\ readyState[streams[s].conn] = "OPEN"


\* the step is the 'end' event of call s of the cached server, and the
\* audio the call emitted is stored: it is not empty and shorter than 1 MiB
InsertStep(s) ==
    /\ variant = "cached"
    /\ EndEvent(s)
    /\ streams[s].emitted # <<>>
    /\ BufLen(BufferConcat(streams[s].emitted)) < MiB

\* C6, step part: an insertion into a cache of CACHE_MAX_SIZE entries
\* deletes exactly one entry it held, then stores the new one.
C6_EvictsOne ==
    \A s \in DOMAIN streams :
        InsertStep(s) /\ MapSize(audioCache) = CACHE_MAX_SIZE =>
            /\ Len(lastEvicted') = 1
            /\ MapHas(audioCache, lastEvicted'[1])
            /\ streams[s].key # lastEvicted'[1] => ~MapHas(audioCache', lastEvicted'[1])
            /\ MapHas(audioCache', streams[s].key)
            /\ MapSize(audioCache') =
                 IF streams[s].key # lastEvicted'[1] /\ MapHas(audioCache, streams[s].key)
                 THEN CACHE_MAX_SIZE - 1 ELSE CACHE_MAX_SIZE

\* C6: audioCache.size <= CACHE_MAX_SIZE in every state, and an insertion
\* into a full cache removes exactly one entry before it inserts.
C6_CacheBound ==
    [](MapSize(audioCache) <= CACHE_MAX_SIZE) /\ [][C6_EvictsOne]_vars

\* C6 witness: the full cache after an insertion that evicted an entry.
C6_Witness ==
    /\ MapSize(audioCache) = CACHE_MAX_SIZE
    /\ lastEvicted # <<>>
    /\ ~MapHas(audioCache, lastEvicted[1])

\* a cache hit is answered on connection c in this step
HitStep(c) ==
    \E r \in Requests :
        /\ sent[c][r] = <<>>
        /\ \E i \in 1..Len(sent'[c][r]) : sent'[c][r][i].cached

\* C7: the entry an insertion evicts is the one created earliest among the
\* entries held, also when the key inserted is already held; a cache hit
\* leaves the cache, and so the order of eviction, as it is.
C7_EvictsOldest ==
    [][/\ \A s \in DOMAIN streams :
             EndEvent(s) /\ lastEvicted' # <<>> =>
                /\ MapHas(audioCache, lastEvicted'[1])
                /\ \A i \in 1..Len(audioCache) :
                      MapGet(audioCache, lastEvicted'[1]).at <= audioCache[i].at
        /\ \A c \in Conns : HitStep(c) => audioCache' = audioCache
      ]_vars

\* C7 witness: an insertion of a key the full cache already held evicted
\* the oldest entry and stored the blob in the entry of the key.
C7_Witness ==
    /\ MapSize(audioCache) = CACHE_MAX_SIZE - 1
    /\ lastEvicted # <<>>
    /\ \E c \in Conns : \E r \in Requests : \E i \in 1..Len(sent[c][r]) :
          sent[c][r][i].cached

\* C8: no blob of 1 MiB or more is in the cache in any state, and the end
\* of a call whose audio is 1 MiB or more leaves the cache as it is:
\* nothing stored, nothing evicted.
C8_OversizeNeverCached ==
    /\ [](\A i \in 1..Len(audioCache) : BufLen(audioCache[i].blob) < MiB)
    /\ [][\A s \in DOMAIN streams :
             /\ variant = "cached"
             /\ EndEvent(s)
             /\ BufLen(BufferConcat(streams[s].emitted)) >= MiB
             => audioCache' = audioCache /\ lastEvicted' = <<>>
         ]_vars

\* C8 witness: the same request was made twice, both calls ended with
\* audio of 1 MiB or more, one of them of exactly 1 MiB.
C8_Witness ==
    \E s1, s2 \in DOMAIN streams :
        /\ s1 < s2
        /\ streams[s1].key = streams[s2].key
        /\ streams[s1].state = "end"
        /\ streams[s2].state = "end"
        /\ BufLen(BufferConcat(streams[s1].emitted)) = MiB
        /\ BufLen(BufferConcat(streams[s2].emitted)) >= MiB
        /\ ~MapHas(audioCache, streams[s1].key)

\* C9, state part: an entry stored during the run holds the whole audio of
\* a call of its key that ended normally.
C9_EntriesComplete ==
    \A i \in 1..Len(audioCache) :
        audioCache[i].writer # NoOne =>
            \E s \in DOMAIN streams :
                /\ streams[s].conn = audioCache[i].writer.conn
                /\ streams[s].req = audioCache[i].writer.req
                /\ streams[s].key = audioCache[i].key
                /\ streams[s].state = "end"
                /\ audioCache[i].blob = BufferConcat(streams[s].emitted)

\* C9, step part: the 'error' event of a call and a malformed message
\* leave the cache as it is; the cache changes only at the 'end' event of a
\* call that emitted audio.
C9_OnlyAtEnd ==
    /\ \A s \in DOMAIN streams : ErrorEvent(s) => audioCache' = audioCache
    /\ \A c \in Conns : sent'[c][0] # sent[c][0] => audioCache' = audioCache
    /\ audioCache' # audioCache =>
          \E s \in DOMAIN streams : EndEvent(s) /\ streams[s].emitted # <<>>

\* C9: a cache entry is created only when a call completes normally; a call
\* that fails, after any number of chunks, and a malformed message leave
\* the cache unchanged.
C9_OnlyOnSuccess == []C9_EntriesComplete /\ [][C9_OnlyAtEnd]_vars

\* C9 witness: a call failed after a chunk and its key is not in the cache,
\* and a malformed message was answered.
C9_Witness ==
    /\ variant = "cached"
    /\ \E s \in DOMAIN streams :
          /\ streams[s].state = "error"
          /\ streams[s].emitted # <<>>
          /\ ~MapHas(audioCache, streams[s].key)
    /\ \E c \in Conns : sent[c][0] # <<>>

\* the payloads of the cache hits answered so far
HitPayloads ==
    {m \in UNION {UNION {{sent[c][r][i] : i \in 1..Len(sent[c][r])} : r \in Requests}
                  : c \in Conns} :
        m.type = "binary" /\ m.cached}

\* the concatenation of the audio chunks sent for request who.req of
\* connection who.conn
Relayed(who) == BufferConcat(Payloads(sent[who.conn][who.req]))

\* C10 as stated: the blob sent on a cache hit is the concatenation of the
\* chunks relayed for the first request that completed with the
\* fingerprint, the one that created the entry the hit reads.
C10_HitReplaysFirst ==
    \A m \in HitPayloads : m.first # NoOne => m.data = Relayed(m.first)

\* C10 amended: the blob sent on a cache hit is the concatenation of the
\* chunks relayed for the request whose completion last stored the entry.
C10_HitReplaysLastStored ==
    \A m \in HitPayloads : m.from # NoOne => m.data = Relayed(m.from)

\* C10 witness: a hit on one connection replays two chunks relayed to
\* another connection.
C10_Witness ==
    \E c \in Conns : \E r \in Requests : \E i \in 1..Len(sent[c][r]) :
        /\ sent[c][r][i].type = "binary"
        /\ sent[c][r][i].cached
        /\ sent[c][r][i].from # NoOne
        /\ sent[c][r][i].from.conn # c
        /\ Len(Payloads(sent[sent[c][r][i].from.conn][sent[c][r][i].from.req])) = 2


\* the types of the messages of a lane, in order
Types(lane) == [i \in 1..Len(lane) |-> lane[i].type]

\* the only traffic so far is one request of connection c, which missed the
\* cache, and the events of its upstream call
OnlyFirstRequest(c) ==
    /\ variant = "cached"
    /\ inbound = 1
    /\ Len(streams) = 1
    /\ streams[1].conn = c

\* the answer to a cache hit in lane: 'audio-info' with cached: true, the
\* chunk envelope, the blob, 'audio-complete'
AnsweredFromCache(lane, blob) ==
    /\ Types(lane) = <<"audio-info", "audio-chunk", "binary", "audio-complete">>
    /\ lane[1].cached
    /\ lane[3].data = blob

C11_FirstPopulates ==
    /\ [](\A c \in Conns :
             /\ OnlyFirstRequest(c)
             /\ streams[1].state = "end"
             /\ Cacheable(streams[1].emitted)
             => /\ MapHas(audioCache, streams[1].key)
                /\ MapGet(audioCache, streams[1].key).blob
                      = BufferConcat(streams[1].emitted))
    /\ [][\A c \in Conns : \A m \in SynthRequests :
             Cached_Message(c, m) /\ ~MapHas(audioCache, cacheKey(m))
             => Len(streams') = Len(streams) + 1
       ]_vars

ChunkMarks(lane) ==
    IF variant = "queued"
    THEN [i \in 1..Len(Frames(lane)) |->
             [seq |-> ReadInt32LE(Frames(lane)[i].data),
              last |-> ByteAt(Frames(lane)[i].data, 4) = 1]]
    ELSE LET envelopes == SelectSeq(lane, LAMBDA m : m.type = "audio-chunk")
         IN  [i \in 1..Len(envelopes) |->
                 [seq |-> envelopes[i].sequenceNumber,
                  last |-> envelopes[i].isLastChunk]]

\* sequence numbers strictly increasing, one mark of last, on the final one
WellMarked(marks) ==
    /\ marks # <<>>
    /\ \A i, j \in 1..Len(marks) : i < j => marks[i].seq < marks[j].seq
    /\ \A i \in 1..Len(marks) : marks[i].last <=> i = Len(marks)

\* C12: for every request of an open connection that completed normally,
\* the chunk messages carry strictly increasing sequence numbers, the
\* i-th of them the i-th chunk received from upstream, and exactly one is
\* marked last, the final one; in both framings.
C12_ChunksWellMarked ==
    /\ \A c \in Conns : \A r \in Requests :
          readyState[c] = "OPEN" /\ HasType(sent[c][r], "audio-complete")
              => WellMarked(ChunkMarks(sent[c][r]))
    /\ \A s \in DOMAIN streams :
          streams[s].state = "end" /\ readyState[streams[s].conn] = "OPEN" =>
              /\ Len(ChunkMarks(LaneOf(s))) = Len(streams[s].emitted) + 1
              /\ \A i \in 1..Len(streams[s].emitted) :
                    Payloads(LaneOf(s))[i] = streams[s].emitted[i]

\* C12 witness: a request of an open connection completed after two
\* different chunks.
C12_Witness ==
    \E s \in DOMAIN streams :
        /\ streams[s].state = "end"
        /\ readyState[streams[s].conn] = "OPEN"
        /\ Len(streams[s].emitted) = 2
        /\ streams[s].emitted[1] # streams[s].emitted[2]
        /\ Len(ChunkMarks(LaneOf(s))) = 3


\* the chunk frames sent on connection c for its requests 1..r, in the
\* order they were sent: the queued server sends every message of a request
\* before any message of a later one
RECURSIVE FramesUpTo(_, _)
FramesUpTo(c, r) ==
    IF r = 0 THEN <<>> ELSE FramesUpTo(c, r - 1) \o ChunkMarks(sent[c][r])

\* C13 as stated: in the queued server the sequence numbers of the
\* successive chunk frames sent on an open connection, across all its
\* requests, are strictly increasing.
C13_StrictlyIncreasing ==
    variant = "queued" =>
        \A c \in Conns :
            readyState[c] = "OPEN" =>
                LET marks == FramesUpTo(c, MaxMessages)
                IN  \A i, j \in 1..Len(marks) : i < j => marks[i].seq < marks[j].seq


\* C14 as stated: in the cached server every 'audio-chunk' envelope sent on
\* an open connection, the one marked last included, is immediately
\* followed by the raw-bytes message of the chunk.  A handler sends its
\* messages back to back, so the message after an envelope in the lane of
\* its request is the message after it on the connection.
C14_EnvelopeThenBytes ==
    variant = "cached" =>
        \A c \in Conns : \A r \in Requests :
            readyState[c] = "OPEN" =>
                \A i \in 1..Len(sent[c][r]) :
                    sent[c][r][i].type = "audio-chunk" =>
                        /\ i < Len(sent[c][r])
                        /\ sent[c][r][i + 1].type = "binary"


\* request r of connection c has been handed to an upstream call
Started(c, r) ==
    \E s \in DOMAIN streams : streams[s].conn = c /\ streams[s].req = r

\* C15, state part: a closed connection is not in activeConnections, its
\* queue is empty, and its requests that were not started have no message,
\* so no 'error' message.
C15_ClosedState ==
    \A c \in Conns :
        readyState[c] = "CLOSED" =>
            /\ c \notin activeConnections
            /\ processingQueue[c] = <<>>
            /\ \A r \in Requests : ~Started(c, r) => sent[c][r] = <<>>

\* C15, step part: the close of a connection empties its queue, removes it
\* from activeConnections, sends nothing and leaves every upstream call,
\* the one in flight included, as it is; no call is started for a closed
\* connection.
C15_ClosedStep ==
    /\ \A c \in Conns :
          readyState[c] = "OPEN" /\ readyState'[c] = "CLOSED" =>
              /\ processingQueue'[c] = <<>>
              /\ activeConnections' = activeConnections \ {c}
              /\ streams' = streams
              /\ sent' = sent
    /\ \A c \in Conns : \A r \in Requests :
          readyState[c] = "CLOSED" /\ ~Started(c, r) => ~Started(c, r)'

\* C15: in the queued server the requests still queued when their
\* connection closes are discarded: no call is ever started for them, no
\* 'error' message is produced for them, the connection leaves
\* activeConnections, and the call in flight is not cancelled.
C15_CloseDiscardsQueue ==
    [](variant = "queued" => C15_ClosedState) /\ [][variant = "queued" => C15_ClosedStep]_vars

\* C15 witness: a connection closed with one call in flight and two
\* requests queued; the call then ended, processNextInQueue resumed, and
\* the two requests have neither a call nor a message.
C15_Witness ==
    \E c \in Conns :
        /\ variant = "queued"
        /\ readyState[c] = "CLOSED"
        /\ submitted[c] = 3
        /\ ~isProcessing[c]
        /\ \E s \in DOMAIN streams :
              /\ streams[s].conn = c
              /\ streams[s].req = 1
              /\ streams[s].state = "end"
              /\ streams[s].emitted # <<>>
        /\ ~Started(c, 2) /\ ~Started(c, 3)
        /\ sent[c][2] = <<>> /\ sent[c][3] = <<>>


\* the step is an event of connection c: its arrival, its close, a message
\* on it, or an event of one of its upstream calls
EventOf(c) ==
    \/ readyState'[c] # readyState[c]
    \/ submitted'[c] # submitted[c]
    \/ sent'[c] # sent[c]
    \/ \E s \in DOMAIN streams : streams[s].conn = c /\ streams'[s] # streams[s]

\* the queue, the flag and the counter of connection c
Scoped(c) == <<processingQueue[c], isProcessing[c], sequenceNumber[c]>>

\* C16, step part: an event of a connection leaves the queue, the flag and
\* the counter of every other connection as they are, and a request that
\* arrives on an idle connection is started whatever the others are doing.
C16_Scoped ==
    /\ \A a, b \in Conns : a # b /\ EventOf(a) => Scoped(b)' = Scoped(b)
    /\ \A b \in Conns :
          submitted'[b] = submitted[b] + 1 /\ ~isProcessing[b]
              => \E s \in DOMAIN streams' :
                    streams'[s].conn = b /\ streams'[s].req = submitted'[b]

\* every request received on an open connection other than the first has
\* its terminal notification
C16_OthersAnswered ==
    \A b \in Conns \ {1} : \A r \in Requests :
        submitted[b] >= r /\ readyState[b] = "OPEN" => HasTerminal(sent[b][r])

\* C16: the queues of the queued server are connection-scoped: when the
\* calls of the first connection may stay open for ever, every request of
\* another connection is still answered unless that connection closes, and
\* no event of a connection touches the queue, flag or counter of another.
C16_ConnectionScoped ==
    /\ [][variant = "queued" => C16_Scoped]_vars
    /\ ~C16_OthersAnswered ~> C16_OthersAnswered

\* C16 witness: the call of the first connection is open with a request
\* queued behind it, and a request of the second connection, started
\* later, has completed.
C16_Witness ==
    \E s1, s2 \in DOMAIN streams :
        /\ variant = "queued"
        /\ s1 < s2
        /\ streams[s1].conn = 1
        /\ streams[s1].state = "open"
        /\ processingQueue[1] # <<>>
        /\ streams[s2].conn = 2
        /\ streams[s2].state = "end"
        /\ readyState[2] = "OPEN"
        /\ ~isProcessing[2]
        /\ HasType(sent[2][streams[s2].req], "audio-complete")


\* the step is the handling of an unparseable message on connection c
MalformedStep(c) == Queued_Message(c, Malformed) \/ Cached_Message(c, Malformed)

\* C17: an unparseable message produces exactly one 'error' message, on the
\* connection it arrived on and on no other, and leaves the queue, the flag
\* and the counter of every connection, the upstream calls, the open
\* connections and the cache as they are.
C17_MalformedOnlyReported ==
    [][\A c \in Conns :
          MalformedStep(c) =>
              /\ sent'[c][0] = Append(sent[c][0], Message("error"))
              /\ \A r \in Requests : sent'[c][r] = sent[c][r]
              /\ \A d \in Conns \ {c} : sent'[d] = sent[d]
              /\ UNCHANGED <<queueVars, streams, submitted, readyState,
                             activeConnections, audioCache>>
      ]_vars

\* C17 witness: an unparseable message was answered on a connection that
\* has a call in flight, while another connection, open as well, got none.
C17_Witness ==
    \E c, d \in Conns :
        /\ c # d
        /\ readyState[c] = "OPEN" /\ readyState[d] = "OPEN"
        /\ Len(sent[c][0]) = 1
        /\ sent[d][0] = <<>>
        /\ Active(c) # {}
        /\ submitted[d] > 0


\* connection c, if open, is idle with every request it received started
\* and answered by 'audio-complete' or 'error'
C18_Settled(c) ==
    readyState[c] = "OPEN" =>
        /\ processingQueue[c] = <<>>
        /\ ~isProcessing[c]
        /\ \A r \in 1..submitted[c] : Started(c, r) /\ HasTerminal(sent[c][r])

\* C18: in the queued server, when the provider answers every call with
\* 'end' or 'error', every request received on a connection that stays open
\* is eventually taken from the queue, started and answered with
\* 'audio-complete' or 'error', and the connection is eventually idle
\* again: queue empty, isProcessing false.
C18_EveryRequestAnswered ==
    \A c \in Conns : ~C18_Settled(c) ~> C18_Settled(c)

\* C18 witness: an open connection is idle again after three requests, two
\* of which waited in the queue, one failed and one completed with audio.
C18_Witness ==
    \E c \in Conns :
        /\ variant = "queued"
        /\ readyState[c] = "OPEN"
        /\ submitted[c] = 3
        /\ C18_Settled(c)
        /\ \E s \in DOMAIN streams :
              streams[s].conn = c /\ streams[s].state = "error"
        /\ \E s \in DOMAIN streams :
              streams[s].conn = c /\ streams[s].state = "end" /\ streams[s].emitted # <<>>


\* C19, state part: a request of an open connection whose call emitted no
\* chunk and then 'end' got one chunk marker, marked last, no audio byte,
\* and 'audio-complete' as its last message, after the marker.
C19_EmptyAnswer ==
    \A s \in DOMAIN streams :
        /\ streams[s].state = "end"
        /\ streams[s].emitted = <<>>
        /\ readyState[streams[s].conn] = "OPEN"
        => /\ Len(ChunkMarks(LaneOf(s))) = 1
           /\ ChunkMarks(LaneOf(s))[1].last
           /\ BufferConcat(Payloads(LaneOf(s))) = <<>>
           /\ CountType(LaneOf(s), "audio-complete") = 1
           /\ LaneOf(s)[Len(LaneOf(s))].type = "audio-complete"
           /\ LaneOf(s)[Len(LaneOf(s)) - 1].type \in {"binary", "audio-chunk"}

\* C19, step part: the 'end' event of a call that emitted no chunk leaves
\* the cache and the sequence counters as they are, the counter of a
\* connection moves only at a 'data' event of one of its calls, and the
\* step that resumes after such an 'end' starts the head of the queue.
C19_EmptyStep ==
    /\ \A s \in DOMAIN streams :
          EndEvent(s) /\ streams[s].emitted = <<>> =>
              /\ audioCache' = audioCache
              /\ sequenceNumber' = sequenceNumber
              /\ variant = "queued" =>
                    ChunkMarks(LaneOf(s)')[1].seq = sequenceNumber[streams[s].conn]
    /\ \A c \in Conns :
          sequenceNumber'[c] # sequenceNumber[c] =>
              \E s \in DOMAIN streams :
                  /\ streams[s].conn = c
                  /\ streams'[s].emitted # streams[s].emitted
    /\ \A s \in DOMAIN streams :
          /\ ResumeStep(s)
          /\ streams[s].state = "end"
          /\ streams[s].emitted = <<>>
          /\ processingQueue[streams[s].conn] # <<>>
          => /\ Len(streams') = Len(streams) + 1
             /\ streams'[Len(streams')].conn = streams[s].conn
             /\ streams'[Len(streams')].req = Head(processingQueue[streams[s].conn]).req
             /\ processingQueue'[streams[s].conn] = Tail(processingQueue[streams[s].conn])

\* C19: when a call emits no chunk and then 'end', the client receives
\* exactly one chunk marker, marked last and without audio, then
\* 'audio-complete'; the cached server creates no cache entry, the queued
\* server does not advance the sequence counter and goes on to the next
\* request of the queue.
C19_EmptySynthesis == []C19_EmptyAnswer /\ [][C19_EmptyStep]_vars

\* C19 witness: on an open connection of the queued server that had already
\* sent a chunk, a call ended without a chunk and the request queued behind
\* it was started.
C19_Witness ==
    \E s \in DOMAIN streams :
        /\ variant = "queued"
        /\ streams[s].state = "end"
        /\ streams[s].emitted = <<>>
        /\ readyState[streams[s].conn] = "OPEN"
        /\ sequenceNumber[streams[s].conn] > 0
        /\ ChunkMarks(LaneOf(s))[1].seq > 0
        /\ Started(streams[s].conn, streams[s].req + 1)


\* the continuation of processNextInQueue on connection c is pending: a
\* call of c has emitted 'end' or 'error' and the catch and finally blocks
\* have not run yet.  They run as microtasks of the same event, so such a
\* state lies inside the execution of an event handler.
ResumePending(c) ==
    \E s \in DOMAIN streams :
        streams[s].conn = c /\ streams[s].state # "open" /\ streams[s].awaiting

\* C20: in the queued server, in every state between two event-handler
\* executions and for every open connection, isProcessing is true exactly
\* when one upstream call of the connection is in flight, and when it is
\* false the queue is empty.
C20_FlagMatchesCall ==
    variant = "queued" =>
        \A c \in Conns :
            readyState[c] = "OPEN" /\ ~ResumePending(c) =>
                /\ isProcessing[c] <=> Cardinality(Active(c)) = 1
                /\ ~isProcessing[c] => processingQueue[c] = <<>>

\* C20 witness: on an open connection a first call has ended and the
\* continuation has run; the flag is set, the call of the second request is
\* in flight and a third request waits in the queue.
C20_Witness ==
    \E c \in Conns :
        /\ variant = "queued"
        /\ readyState[c] = "OPEN"
        /\ ~ResumePending(c)
        /\ isProcessing[c]
        /\ Cardinality(Active(c)) = 1
        /\ Len(processingQueue[c]) = 1
        /\ \E s \in DOMAIN streams :
              streams[s].conn = c /\ streams[s].state # "open"

====
